---- MODULE Spec2Model ----
(***************************************************************************)
(* Receding-horizon planning controller (cybersyn.optimize.OptimizePlan)  *)
(* and its output record (cybersyn.economy.PlannedEconomy).               *)
(*                                                                         *)
(* The economy has one product and one sector, so every matrix and vector *)
(* of the source is a scalar here.  The numeric solver is external: one   *)
(* solve is a nondeterministic choice of a status and, when the status is *)
(* "optimal", of any assignment of the problem's variables that satisfies *)
(* the constraints the window built (the objective only selects among     *)
(* those assignments).  The labor coefficients 0.9 and 1.1 are kept exact *)
(* by comparing 10*x with 9*y and 11*y.                                    *)
(*                                                                         *)
(* A cvxpy expression is kept as a record naming what it was built from   *)
(* and is evaluated, as cvxpy does, against the values the variables hold *)
(* at the time it is read.                                                 *)
(*                                                                         *)
(* The constraint builders read economy.target_domestic, target_export    *)
(* and target_import; they are modelled as series of the economy object   *)
(* the controller was given, next to the series the Economy record names. *)
(* The controller is built without an ecology (ecology = None), so        *)
(* pollutants_constraint adds nothing to a window.                        *)
(*                                                                         *)
(* SpecEconomy models the construction of an Economy record               *)
(* (cybersyn.economy.Economy): a matrix is kept as its shape, a series as *)
(* the sequence of its periods' shapes, a name list as its length.        *)
(* SpecAgain lets one controller be called more than once.                *)
(***************************************************************************)
EXTENDS Integers, Sequences, FiniteSets, TLC

\* ---------------------------------------------------------------- bounds
MaxPeriods == 3
MaxHorizon == 2
MaxRevise == 2
MaxEconomyLen == 4
MaxDim == 2
MaxSeriesLen == 2
MaxRuns == 2
MaxPeriodsAgain == 2

\* Values the solver may give to an activity / total_import variable, and
\* the arguments the caller may pass to a run.
ActivityValues == {10, 12}
ImportValues == {0, 1}
InitialSurplus == {1}
InitialDeficit == {0, 1}

\* The value of a cvxpy variable or expression that has none.
None == -999

\* ------------------------------------------------------------ the economy
\* One product, one sector; period t of each series of the Economy record.
economy_supply(t) == 2
economy_use_domestic(t) == 1
economy_use_import(t) == 0
economy_depreciation(t) == 1
economy_target_domestic(t) == 10
economy_target_export(t) == 1
economy_target_import(t) == 0
economy_prices_import(t) == 1
economy_prices_export(t) == IF t % 2 = 0 THEN 0 ELSE 2
economy_worked_hours(t) == 1

\* ------------------------------------------------------------ Economy
\* The default `...` of product_names and sector_names.
Ellipsis == -1

ECONOMY_FIELDS ==
    {"supply", "use_domestic", "use_import", "depreciation", "final_domestic",
     "final_export", "final_import", "prices_import", "prices_export",
     "worked_hours"}

\* matrix.shape: <<rows, columns>> of a matrix, <<length>> of a vector
Shapes ==
    {<<n>> : n \in 1..MaxDim} \cup {<<r, c>> : r \in 1..MaxDim, c \in 1..MaxDim}

\* The shape the data model gives a series for np products and ns sectors.
ExpectedShape(f, np, ns) ==
    CASE f \in {"supply", "use_domestic", "use_import"} -> <<np, ns>>
      [] f = "depreciation" -> <<np, np>>
      [] f = "worked_hours" -> <<ns>>
      [] OTHER -> <<np>>

\* equal_shapes: every matrix of the series has the shape of the first
equal_shapes(matrices) ==
    \A i \in DOMAIN matrices : matrices[i] = matrices[1]

\* equal_periods: the series has as many periods as supply, when supply
\* has itself been validated before it
equal_periods(f, e) ==
    (f # "supply" /\ equal_shapes(e.supply)) => Len(e[f]) = Len(e.supply)

\* validate_matrix_shape
validate_matrix_shape(matrices, shape) ==
    \A i \in DOMAIN matrices : matrices[i] = shape

\* model_post_init: the exception it raises, or "ok"
model_post_init(e, pn, sn) ==
    IF Len(e.supply[1]) < 2 THEN "IndexError"
    ELSE
    LET products == e.supply[1][1]
        sectors == e.supply[1][2]
    IN  IF ~validate_matrix_shape(<<e.use_domestic[1], e.use_import[1]>>,
                                  <<products, sectors>>)
        THEN "ShapeError"
        ELSE IF ~validate_matrix_shape(<<e.depreciation[1]>>, <<products, products>>)
        THEN "ShapeError"
        ELSE IF ~validate_matrix_shape(
                    <<e.final_domestic[1], e.final_export[1], e.prices_import[1],
                      e.prices_export[1]>>, <<products>>)
        THEN "ShapeError"
        ELSE IF ~validate_matrix_shape(<<e.worked_hours[1]>>, <<sectors>>)
        THEN "ShapeError"
        ELSE IF pn # Ellipsis /\ pn # products THEN "ValueError"
        ELSE IF sn # Ellipsis /\ pn = Ellipsis THEN "TypeError"
        ELSE IF sn # Ellipsis /\ pn # products THEN "ValueError"
        ELSE "ok"

\* Economy(...): pydantic validates every field (a field whose default is
\* `...` is required), collecting the errors of the field validators in one
\* ValidationError, and calls model_post_init when there is none.
Economy(e, pn, sn) ==
    IF \/ \E f \in ECONOMY_FIELDS : ~equal_shapes(e[f]) \/ ~equal_periods(f, e)
       \/ pn = Ellipsis
       \/ sn = Ellipsis
    THEN "ValidationError"
    ELSE IF model_post_init(e, pn, sn) = "ok" THEN "constructed"
    ELSE model_post_init(e, pn, sn)

\* ---------------------------------------------------------------- helpers
Min(a, b) == IF a < b THEN a ELSE b

Max(a, b) == IF a < b THEN b ELSE a

\* math.ceil(a / b) for positive integers
Ceil(a, b) == (a + b - 1) \div b

\* range(a, b) as a sequence a, a+1, ..., b-1
RangeSeq(a, b) == [i \in 1..Max(0, b - a) |-> a + i - 1]

\* list[t] of a Python list kept as a sequence
At(list, t) == list[t + 1]

Last(list) == list[Len(list)]

EmptyPlan ==
    [activity |-> << >>, production |-> << >>, surplus |-> << >>,
     total_import |-> << >>, export_deficit |-> << >>, worked_hours |-> << >>]

PlanFields ==
    {"activity", "production", "surplus", "total_import", "export_deficit",
     "worked_hours"}

VARIABLES
    periods,            \* self.periods
    horizon_periods,    \* self.horizon_periods
    revise_periods,     \* self.revise_periods
    economy_len,        \* len(economy.supply)
    pc,                 \* where the controller is
    activity,           \* self.activity: value of each activity variable
    total_import,       \* self.total_import: value of each import variable
    production,         \* self.production: list of expressions
    surplus,            \* self.surplus: list of expressions
    export_deficit,     \* self.export_deficit: list of expressions
    worked_hours,       \* self.worked_hours: list of expressions
    planned,            \* self.planned: the six output sequences
    period,             \* the window start the run is at
    call_surplus,       \* the surplus the run was called with (zeros if None)
    call_export_deficit,\* the export deficit the run was called with
    status,             \* problem.status of the last solve
    at_period,          \* iter_ carried by InfeasibleProblem
    windows,            \* history: the windows formulated, with their seeds
    committed,          \* history: the period of each entry of the plan
    planned_at_call,    \* history: the plan when the run started
    runs,               \* history: the number of runs started
    returned,           \* history: each plan returned, as it was returned
    economy,            \* the series given to Economy: the shape of each period
    product_names,      \* len(product_names), or Ellipsis
    sector_names,       \* len(sector_names), or Ellipsis
    economy_status      \* where the construction of the Economy is

economy_vars == <<economy, product_names, sector_names, economy_status>>

vars ==
    <<periods, horizon_periods, revise_periods, economy_len, pc, activity,
      total_import, production, surplus, export_deficit, worked_hours,
      planned, period, call_surplus, call_export_deficit, status, at_period,
      windows, committed, planned_at_call, runs, returned, economy_vars>>

params == <<periods, horizon_periods, revise_periods, economy_len>>

exprs == <<production, surplus, export_deficit, worked_hours>>

\* ------------------------------------------------------------ expressions
\* supply_use @ self.activity[t]
ProductionValue(t, A) ==
    IF A[t] = None THEN None
    ELSE (economy_supply(t) - economy_use_domestic(t) - economy_use_import(t)) * A[t]

\* The surplus chained from `seed` over the periods from..t of one window.
RECURSIVE SurplusValue(_, _, _, _, _)
SurplusValue(seed, from, t, A, I) ==
    LET prev == IF t = from THEN seed ELSE SurplusValue(seed, from, t - 1, A, I)
    IN  IF prev = None \/ A[t] = None \/ I[t] = None THEN None
        ELSE economy_depreciation(t) * prev + ProductionValue(t, A) + I[t]
             - economy_target_domestic(t) - economy_target_export(t)
             - economy_target_import(t)

\* The export deficit chained from `seed` over the periods from..t.
RECURSIVE DeficitValue(_, _, _, _)
DeficitValue(seed, from, t, I) ==
    LET prev == IF t = from THEN seed ELSE DeficitValue(seed, from, t - 1, I)
    IN  IF prev = None \/ I[t] = None THEN None
        ELSE prev + economy_prices_export(t) * economy_target_export(t)
             - economy_prices_import(t) * I[t]

\* self.economy.worked_hours[t] @ self.activity[t]
WorkedHoursValue(t, A) ==
    IF A[t] = None THEN None ELSE economy_worked_hours(t) * A[t]

Expr(kind, seed, from, t) == [kind |-> kind, seed |-> seed, from |-> from, t |-> t]

\* expression.value under the values A, I the variables hold now
ExprValue(e, A, I) ==
    CASE e.kind = "production" -> ProductionValue(e.t, A)
      [] e.kind = "surplus" -> SurplusValue(e.seed, e.from, e.t, A, I)
      [] e.kind = "export_deficit" -> DeficitValue(e.seed, e.from, e.t, I)
      [] e.kind = "worked_hours" -> WorkedHoursValue(e.t, A)

\* ------------------------------------------------- construction, validation
min_periods_floor ==
    revise_periods * ((periods \div revise_periods) - 1) + horizon_periods

min_periods ==
    revise_periods * (Ceil(periods, revise_periods) - 1) + horizon_periods

validate_plan_periods_first ==
    IF min_periods > economy_len THEN "ErrorPeriods"
    ELSE IF revise_periods > horizon_periods THEN "ErrorRevisePeriods"
    ELSE "ok"

\* _validate_plan: the exception it raises, or "ok"
validate_plan ==
    IF revise_periods > horizon_periods THEN "ErrorRevisePeriods"
    ELSE IF min_periods > economy_len THEN "ErrorPeriods"
    ELSE "ok"

\* ------------------------------------------------------ window formulation
\* The periods t of the window at p whose expressions a constraint builder
\* records, out of those it has looped over (p .. upto-1).
RecordedPeriods(p, upto) ==
    RangeSeq(p, Min(upto, Min(p + revise_periods, periods)))

\* production_constraints: what it appends to self.surplus
production_constraints_surplus(p, seed, upto) ==
    [i \in DOMAIN RecordedPeriods(p, upto) |->
        Expr("surplus", seed, p, RecordedPeriods(p, upto)[i])]

\* production_constraints: what it appends to self.production
production_constraints_production(p, upto) ==
    [i \in DOMAIN RecordedPeriods(p, upto) |->
        Expr("production", 0, RecordedPeriods(p, upto)[i], RecordedPeriods(p, upto)[i])]

\* production_constraints: the constraints it returns, surplus >= 0 for
\* every period of the window
production_constraints(p, seed, A, I) ==
    \A t \in p..(p + horizon_periods - 1) : SurplusValue(seed, p, t, A, I) >= 0

\* export_constraints: what it appends to self.export_deficit
export_constraints_recorded(p, seed) ==
    [i \in DOMAIN RecordedPeriods(p, p + revise_periods) |->
        Expr("export_deficit", seed, p, RecordedPeriods(p, p + revise_periods)[i])]

export_constraints_flipped(p, seed, I) ==
    DeficitValue(seed, p, p + revise_periods - 1, I) <= 0

\* export_constraints: the one constraint it returns, on the deficit the
\* loop ended with
export_constraints(p, seed, I) ==
    DeficitValue(seed, p, p + revise_periods - 1, I) >= 0

\* labor_realloc_constraint
labor_realloc_constraint(p, A) ==
    \A t \in p..(p + revise_periods - 1) :
        t # 0 => /\ 10 * A[t] >= 9 * A[t - 1]
                 /\ 10 * A[t] <= 11 * A[t - 1]

\* cost: what it appends to self.worked_hours
cost_recorded(p) ==
    [i \in 1..Min(horizon_periods, revise_periods) |->
        Expr("worked_hours", 0, p + i - 1, p + i - 1)]

\* The variables of the problem of the window at p.
ActivityVariables(p) ==
    (p..(p + horizon_periods - 1)) \cup (IF p > 0 THEN {p - 1} ELSE {})

ImportVariables(p) == p..(p + horizon_periods - 1)

\* ------------------------------------------------------------- the solver
Statuses == {"optimal", "infeasible", "unbounded"}

\* problem.status in ["infeasible", "unbounded"]
IsFatalOnlyInfeasible(st) == st = "infeasible"

IsFatal(st) == st \in {"infeasible", "unbounded"}

\* The values a solve leaves in a variable of the problem.
SolverValues(st, values) == IF st = "optimal" THEN values ELSE {None}

\* A solve writes the variables of the problem and leaves the others alone.
Assign(old, changed, new) ==
    [t \in DOMAIN old |-> IF t \in changed THEN new[t] ELSE old[t]]

Satisfies(p, seed_surplus, seed_deficit, A, I) ==
    /\ production_constraints(p, seed_surplus, A, I)
    /\ export_constraints(p, seed_deficit, I)
    /\ labor_realloc_constraint(p, A)

\* ---------------------------------------------------------------- the run
NumVariablesShort == periods + horizon_periods - 2

\* range(self.periods + self.horizon_periods - 1): one activity and one
\* total_import variable per period of the extended horizon
NumVariables == periods + horizon_periods - 1

\* range(1, self.periods, self.revise_periods), after the call for period 0
NextPeriod(p) == IF p = 0 THEN 1 ELSE p + revise_periods

\* range(min(self.revise_periods, self.periods - period))
SaveCountOffByOne(p) == Min(revise_periods, periods - p - 1)

SaveCount(p) == Min(revise_periods, periods - p)

\* _save_plan_period, reading the expression lists P, S, E, W
save_plan_period(p, A, I, P, S, E, W) ==
    LET ts == RangeSeq(p, p + SaveCount(p))
    IN  [activity |-> planned.activity \o [i \in DOMAIN ts |-> A[ts[i]]],
         production |-> planned.production
                        \o [i \in DOMAIN ts |-> ExprValue(At(P, ts[i]), A, I)],
         surplus |-> planned.surplus
                        \o [i \in DOMAIN ts |-> ExprValue(At(S, ts[i]), A, I)],
         total_import |-> planned.total_import \o [i \in DOMAIN ts |-> I[ts[i]]],
         export_deficit |-> planned.export_deficit
                        \o [i \in DOMAIN ts |-> ExprValue(At(E, ts[i]), A, I)],
         worked_hours |-> planned.worked_hours
                        \o [i \in DOMAIN ts |-> ExprValue(At(W, ts[i]), A, I)]]

SeedSurplus == IF period = 0 THEN call_surplus ELSE Last(planned.surplus)

SeedDeficit ==
    IF period = 0 THEN call_export_deficit ELSE Last(planned.export_deficit)

\* The window the run is at, as the history records it: its start, its
\* seeds, and the entry of the plan the seeds were read from (0: the call).
Window ==
    [period |-> period, surplus |-> SeedSurplus, export_deficit |-> SeedDeficit,
     seeded_by |-> IF period = 0 THEN 0 ELSE Len(planned.surplus)]

\* No controller has been built yet.
NoController ==
    /\ pc = "new"
    /\ activity = << >>
    /\ total_import = << >>
    /\ production = << >>
    /\ surplus = << >>
    /\ export_deficit = << >>
    /\ worked_hours = << >>
    /\ planned = EmptyPlan
    /\ period = 0
    /\ call_surplus = 0
    /\ call_export_deficit = 0
    /\ status = "none"
    /\ at_period = None
    /\ windows = << >>
    /\ committed = << >>
    /\ planned_at_call = EmptyPlan
    /\ runs = 0
    /\ returned = << >>

\* A controller is about to be built on a validated economy of one product
\* and one sector.
Init ==
    /\ periods \in 1..MaxPeriods
    /\ horizon_periods \in 1..MaxHorizon
    /\ revise_periods \in 1..MaxRevise
    /\ economy_len \in 1..MaxEconomyLen
    /\ NoController
    /\ economy = [f \in ECONOMY_FIELDS |->
                    [i \in 1..economy_len |-> ExpectedShape(f, 1, 1)]]
    /\ product_names = 1
    /\ sector_names = 1
    /\ economy_status = "constructed"

\* OptimizePlan.__init__
New ==
    /\ pc = "new"
    /\ pc' = IF validate_plan = "ok" THEN "ready" ELSE validate_plan
    /\ planned' = EmptyPlan
    /\ UNCHANGED <<params, activity, total_import, exprs, period, call_surplus,
                   call_export_deficit, status, at_period, windows, committed,
                   planned_at_call, runs, returned, economy_vars>>

\* OptimizePlan.__call__ up to the first optimize_period
call ==
    /\ \E s \in InitialSurplus \cup {None}, d \in InitialDeficit :
        /\ call_surplus' = IF s = None THEN 0 ELSE s
        /\ call_export_deficit' = d
    /\ production' = << >>
    /\ surplus' = << >>
    /\ export_deficit' = << >>
    /\ worked_hours' = << >>
    /\ activity' = [t \in 0..(NumVariables - 1) |-> None]
    /\ total_import' = [t \in 0..(NumVariables - 1) |-> None]
    /\ period' = 0
    /\ planned_at_call' = planned
    /\ pc' = "running"
    /\ windows' = << >>
    /\ runs' = runs + 1
    /\ UNCHANGED <<params, planned, status, at_period, committed, returned,
                   economy_vars>>

\* The first run of a controller.
Call ==
    /\ pc = "ready"
    /\ call

\* A later run of the same controller, after a run that returned or failed.
CallAgain ==
    /\ pc \in {"done", "InfeasibleProblem", "IndexError"}
    /\ runs < MaxRuns
    /\ call

\* optimize_period whose production_constraints reads the economy past its
\* last period
OptimizeIndexError ==
    /\ pc = "running"
    /\ period = 0 \/ period < periods
    /\ period + horizon_periods > economy_len
    /\ surplus' = surplus \o production_constraints_surplus(period, SeedSurplus, economy_len)
    /\ production' = production \o production_constraints_production(period, economy_len)
    /\ windows' = Append(windows, Window)
    /\ status' = "none"
    /\ pc' = "IndexError"
    /\ UNCHANGED <<params, activity, total_import, export_deficit, worked_hours,
                   planned, period, call_surplus, call_export_deficit, at_period,
                   committed, planned_at_call, runs, returned, economy_vars>>

\* optimize_period whose solve is reported infeasible or unbounded
OptimizeInfeasible ==
    /\ pc = "running"
    /\ period = 0 \/ period < periods
    /\ period + horizon_periods <= economy_len
    /\ surplus' = surplus
            \o production_constraints_surplus(period, SeedSurplus, period + horizon_periods)
    /\ production' = production
            \o production_constraints_production(period, period + horizon_periods)
    /\ export_deficit' = export_deficit \o export_constraints_recorded(period, SeedDeficit)
    /\ worked_hours' = worked_hours \o cost_recorded(period)
    /\ \E st \in Statuses :
        /\ IsFatal(st)
        /\ status' = st
    /\ activity' = Assign(activity, ActivityVariables(period),
                          [t \in ActivityVariables(period) |-> None])
    /\ total_import' = Assign(total_import, ImportVariables(period),
                              [t \in ImportVariables(period) |-> None])
    /\ windows' = Append(windows, Window)
    /\ at_period' = period
    /\ pc' = "InfeasibleProblem"
    /\ UNCHANGED <<params, planned, period, call_surplus, call_export_deficit,
                   committed, planned_at_call, runs, returned, economy_vars>>

\* optimize_period whose solve succeeds: formulate, solve, _save_plan_period
OptimizeSaved ==
    /\ pc = "running"
    /\ period = 0 \/ period < periods
    /\ period + horizon_periods <= economy_len
    /\ surplus' = surplus
            \o production_constraints_surplus(period, SeedSurplus, period + horizon_periods)
    /\ production' = production
            \o production_constraints_production(period, period + horizon_periods)
    /\ export_deficit' = export_deficit \o export_constraints_recorded(period, SeedDeficit)
    /\ worked_hours' = worked_hours \o cost_recorded(period)
    /\ \E st \in Statuses :
        /\ ~IsFatal(st)
        /\ status' = st
        /\ \E a \in [ActivityVariables(period) -> SolverValues(st, ActivityValues)],
              i \in [ImportVariables(period) -> SolverValues(st, ImportValues)] :
            /\ activity' = Assign(activity, ActivityVariables(period), a)
            /\ total_import' = Assign(total_import, ImportVariables(period), i)
            /\ st = "optimal" =>
                  Satisfies(period, SeedSurplus, SeedDeficit, activity', total_import')
    /\ planned' = save_plan_period(period, activity', total_import', production',
                                   surplus', export_deficit', worked_hours')
    /\ committed' = committed \o RangeSeq(period, period + SaveCount(period))
    /\ windows' = Append(windows, Window)
    /\ period' = NextPeriod(period)
    /\ UNCHANGED <<params, pc, call_surplus, call_export_deficit, at_period,
                   planned_at_call, runs, returned, economy_vars>>

\* OptimizePlan.__call__: the loop is over, return self.planned
Return ==
    /\ pc = "running"
    /\ period > 0
    /\ period >= periods
    /\ pc' = "done"
    /\ returned' = Append(returned, planned)
    /\ UNCHANGED <<params, activity, total_import, exprs, planned, period,
                   call_surplus, call_export_deficit, status, at_period, windows,
                   committed, planned_at_call, runs, economy_vars>>

Next ==
    \/ New
    \/ Call
    \/ OptimizeIndexError
    \/ OptimizeInfeasible
    \/ OptimizeSaved
    \/ Return

Spec == Init /\ [][Next]_vars

\* The controller run more than once.
NextAgain ==
    \/ New
    \/ Call
    \/ CallAgain
    \/ OptimizeIndexError
    \/ OptimizeInfeasible
    \/ OptimizeSaved
    \/ Return

InitAgain ==
    /\ Init
    /\ periods <= MaxPeriodsAgain

SpecAgain == InitAgain /\ [][NextAgain]_vars

\* ------------------------------------------ the construction of an Economy
\* The series one Economy may be given: the shapes a valid economy of np
\* products, ns sectors and n periods has, but for one series, which has m
\* periods and the shape w in the periods ks.
EconomyInputs ==
    { [f \in ECONOMY_FIELDS |->
          IF f = g
          THEN [i \in 1..m |-> IF i \in ks THEN w ELSE ExpectedShape(f, np, ns)]
          ELSE [i \in 1..n |-> ExpectedShape(f, np, ns)]] :
      g \in ECONOMY_FIELDS, np \in 1..MaxDim, ns \in 1..MaxDim,
      n \in 1..MaxSeriesLen, m \in 1..MaxSeriesLen,
      ks \in SUBSET (1..MaxSeriesLen), w \in Shapes }

InitEconomy ==
    /\ economy \in EconomyInputs
    /\ product_names \in {Ellipsis} \cup (1..MaxDim)
    /\ sector_names \in {Ellipsis} \cup (1..MaxDim)
    /\ economy_status = "new"
    /\ periods = 1
    /\ horizon_periods = 1
    /\ revise_periods = 1
    /\ economy_len = Len(economy.supply)
    /\ NoController

\* Economy(...): field validation, then model_post_init
EconomyNew ==
    /\ economy_status = "new"
    /\ economy_status' = Economy(economy, product_names, sector_names)
    /\ UNCHANGED <<params, pc, activity, total_import, exprs, planned, period,
                   call_surplus, call_export_deficit, status, at_period, windows,
                   committed, planned_at_call, runs, returned, economy,
                   product_names, sector_names>>

NextEconomy == EconomyNew

SpecEconomy == InitEconomy /\ [][NextEconomy]_vars

\* ------------------------------------------------------------- the claims
\* The window starts the run has formulated, in order.
WindowStarts == [i \in DOMAIN windows |-> windows[i].period]

\* C1: a run whose every solve is feasible returns a plan whose six
\* sequences each have length exactly `periods`.
C1_PlanHasPeriodsEntries ==
    pc = "done" => \A f \in PlanFields : Len(planned[f]) = periods

\* C2: in a run that completes, every value committed to the export_deficit
\* sequence of the plan is >= 0.
C2_ExportDeficitNonNegative ==
    pc = "done" =>
        \A k \in DOMAIN planned.export_deficit : planned.export_deficit[k] >= 0

\* C3: in a completed run, every entry of the plan's activity after the
\* first lies between 0.9 and 1.1 times the entry committed before it.
C3_ActivityWithinTenPercent ==
    pc = "done" =>
        \A k \in DOMAIN planned.activity :
            k > 1 => /\ 10 * planned.activity[k] >= 9 * planned.activity[k - 1]
                     /\ 10 * planned.activity[k] <= 11 * planned.activity[k - 1]

\* C4: a solve reported infeasible or unbounded for the window at p fails
\* the run at once with InfeasibleProblem(p): nothing of the window is
\* committed, the run does not move on, and after the failure no further
\* window is formulated; both statuses take this same step.
C4_FatalStatusFailsRun ==
    /\ [][(Len(windows') > Len(windows) /\ status' \in {"infeasible", "unbounded"})
            => /\ pc' = "InfeasibleProblem"
               /\ at_period' = period
               /\ period' = period
               /\ planned' = planned
               /\ committed' = committed]_vars
    /\ [][pc = "InfeasibleProblem"
            => /\ pc' = "InfeasibleProblem"
               /\ windows' = windows
               /\ planned' = planned]_vars

\* C4 witness: a run that failed on an unbounded solve of a later window,
\* after an earlier window had been committed.
C4_Witness ==
    /\ pc = "InfeasibleProblem"
    /\ status = "unbounded"
    /\ at_period > 0
    /\ at_period = Last(windows).period
    /\ Len(planned.activity) > 0

\* C5: when a run fails with InfeasibleProblem, the plan's six sequences
\* are exactly as they were before the run started.
C5_FailedRunLeavesPlanUntouched ==
    pc = "InfeasibleProblem" => planned = planned_at_call

\* C6: the window starts a completed run has solved are exactly
\* 0, R, 2R, ..., the multiples of revise_periods below periods, in order.
C6_WindowStartsAreMultiplesOfRevise ==
    pc = "done" =>
        WindowStarts =
            [i \in 1..Ceil(periods, revise_periods) |-> (i - 1) * revise_periods]

\* C7: the window at 0 is seeded with the caller's surplus and export
\* deficit; every window at p > 0 is seeded with the surplus and export
\* deficit of the plan entry that was committed for period p-1.
C7_SeededFromPeriodBefore ==
    \A i \in DOMAIN windows :
        LET w == windows[i]
        IN  IF w.period = 0
            THEN /\ w.seeded_by = 0
                 /\ w.surplus = call_surplus
                 /\ w.export_deficit = call_export_deficit
            ELSE /\ w.seeded_by \in DOMAIN committed
                 /\ committed[w.seeded_by] = w.period - 1
                 /\ w.surplus = planned.surplus[w.seeded_by]
                 /\ w.export_deficit = planned.export_deficit[w.seeded_by]

\* C8: over a completed run each period 0..periods-1 is committed exactly
\* once and in increasing order: the k-th entry of the plan is period k.
C8_EachPeriodCommittedOnce ==
    pc = "done" => committed = RangeSeq(0, periods)

C10_WindowsWithinEconomy ==
    \A i \in DOMAIN windows :
        windows[i].period + horizon_periods <= economy_len

\* C11: constructing a controller with revise_periods > horizon_periods
\* always fails with ErrorRevisePeriods, whatever periods and the length of
\* the economy are, and leaves no controller: no plan, no run.
C11_ReviseAboveHorizonFails ==
    (pc # "new" /\ revise_periods > horizon_periods)
        => /\ pc = "ErrorRevisePeriods"
           /\ planned = EmptyPlan
           /\ windows = << >>
           /\ activity = << >>

\* C11 witness: construction failed with ErrorRevisePeriods although the
\* economy is also too short for the schedule.
C11_Witness ==
    /\ pc = "ErrorRevisePeriods"
    /\ revise_periods > horizon_periods
    /\ periods > revise_periods
    /\ economy_len < revise_periods + horizon_periods

\* C12: with revise_periods <= horizon_periods, construction fails with
\* ErrorPeriods exactly when the economy has fewer than
\* revise_periods * (ceil(periods / revise_periods) - 1) + horizon_periods
\* periods, and succeeds otherwise.
C12_ErrorPeriodsIffTooShort ==
    (pc # "new" /\ revise_periods <= horizon_periods)
        => LET iters == CHOOSE k \in 1..periods :
                            (k - 1) * revise_periods < periods
                            /\ periods <= k * revise_periods
               needed == revise_periods * (iters - 1) + horizon_periods
           IN  /\ pc = "ErrorPeriods" <=> economy_len < needed
               /\ pc # "ErrorRevisePeriods"

\* C12 witness: an economy that covers one horizon but not the rolling
\* schedule was refused.
C12_Witness ==
    /\ pc = "ErrorPeriods"
    /\ revise_periods <= horizon_periods
    /\ economy_len >= horizon_periods
    /\ periods > revise_periods

\* A step in which the window at `period` was solved and saved.
SolvedStep ==
    /\ pc = "running"
    /\ pc' = "running"
    /\ Len(windows') > Len(windows)
    /\ status' = "optimal"

C16_ExpressionListsAlignedWithPeriods ==
    \A list \in {production, surplus, export_deficit, worked_hours} :
        \A i \in DOMAIN list : list[i].t = i - 1

\* C17: a run allocates the decision variables for the periods
\* 0 .. periods + horizon_periods - 2, and every index a window uses (t over
\* the window, and t-1 in the labor constraint) is one of them.
C17_VariableIndicesAllocated ==
    pc \in {"running", "done", "InfeasibleProblem", "IndexError"}
        => /\ DOMAIN activity = 0..(periods + horizon_periods - 2)
           /\ DOMAIN total_import = 0..(periods + horizon_periods - 2)
           /\ \A i \in DOMAIN windows :
                LET p == windows[i].period
                IN  \A t \in p..(p + horizon_periods - 1) :
                        /\ t \in DOMAIN activity
                        /\ t \in DOMAIN total_import
                        /\ (t # 0 /\ t < p + revise_periods)
                               => t - 1 \in DOMAIN activity

\* C17 witness: the window at the last period has been solved with a
\* horizon of two or more, which uses the last variable allocated.
C17_Witness ==
    /\ pc = "running"
    /\ status = "optimal"
    /\ horizon_periods >= 2
    /\ Len(windows) >= 2
    /\ Last(windows).period = periods - 1

\* C13: every successfully constructed Economy has, in every period of
\* every one of its ten series, the shape its products and sectors give
\* that series.
C13_ConstructedEconomyHasConsistentShapes ==
    economy_status = "constructed"
        => \A f \in ECONOMY_FIELDS :
              \A i \in DOMAIN economy[f] :
                  economy[f][i] =
                      ExpectedShape(f, economy.supply[1][1], economy.supply[1][2])

\* C14: every successfully constructed Economy that was given name lists
\* has len(product_names) = products and len(sector_names) = sectors.
C14_ConstructedEconomyHasMatchingNames ==
    economy_status = "constructed"
        => /\ product_names # Ellipsis => product_names = economy.supply[1][1]
           /\ sector_names # Ellipsis => sector_names = economy.supply[1][2]

\* C18: the plan a run returns holds only the entries that run committed,
\* and a plan that was returned stays as it was returned (the caller holds
\* the object the controller returned, self.planned).
C18_LaterRunPlanIsItsOwn ==
    /\ pc = "done" => planned_at_call = EmptyPlan
    /\ \A i \in DOMAIN returned : planned = returned[i]

====
